---- MODULE Spec2Model ----
(***************************************************************************)
(* labelCloud/model/point_cloud.py: the PointCloud entity.                 *)
(*                                                                         *)
(* Number representation.  Lengths (coordinates, translations, far_plane)  *)
(* are fixed-point tenths: 90 stands for 9.0.  Rotation angles are whole   *)
(* degrees.  Colour channels are whole percent (50 stands for 0.5) and the *)
(* inputs are multiples of 10; mix_ratio is in tenths (3 stands for 0.3),  *)
(* so a blend is an exact integer.  Python's None / ndarray / list are     *)
(* records [kind, data]; an optional tuple is <<>> when it is None.  A     *)
(* buffer handle attribute that was never assigned is 0.                   *)
(***************************************************************************)
EXTENDS Integers, Sequences, FiniteSets, TLC

VARIABLES
    args,              \* the arguments of PointCloud(...)
    config,            \* the configuration store read by the module
    pc,                \* "new" | "ready" | "failed"
    error,             \* the exception that ended __init__, "" when none
    points, colors, labels, label_definition, label_color_map, mix_ratio,
    center, pcd_mins, pcd_maxs,
    init_translation, init_rotation,
    trans_x, trans_y, trans_z,
    rot_x, rot_y, rot_z,
    position_vbo, color_vbo, label_vbo,
    gl_buffers,        \* GL server side: handle -> buffer object
    gl_uploads,        \* number of glBufferData calls so far
    color_pointer,     \* handle the last draw bound as the color stream
    lastOp,            \* the operation that produced this state
    ret                \* what the last property read returned

dataVars == <<points, colors, labels, label_definition, label_color_map,
              mix_ratio, center, pcd_mins, pcd_maxs>>
initVars == <<init_translation, init_rotation>>
transVars == <<trans_x, trans_y, trans_z>>
rotVars == <<rot_x, rot_y, rot_z>>
vboVars == <<position_vbo, color_vbo, label_vbo>>
glVars == <<gl_buffers, gl_uploads>>
vars == <<args, config, pc, error, dataVars, initVars, transVars, rotVars,
          vboVars, glVars, color_pointer, lastOp, ret>>

----------------------------------------------------------------------------
(* Bounds of the model *)

MaxPoints == 2
MaxCreates == 2

----------------------------------------------------------------------------
(* Python values *)

None == [kind |-> "None", data |-> <<>>]
NdArray(s) == [kind |-> "ndarray", data |-> s]
PyList(s) == [kind |-> "list", data |-> s]
Raised(e) == [kind |-> e, data |-> <<>>]

SeqsUpTo(S, n) == UNION {[1..k -> S] : k \in 0..n}

Min2(a, b) == IF a <= b THEN a ELSE b
Abs(a) == IF a < 0 THEN -a ELSE a

SIZE_OF_FLOAT == 4

\* ndarray.nbytes of an (n, 3) float32 array
NBytes(a) == Len(a.data) * 3 * SIZE_OF_FLOAT

----------------------------------------------------------------------------
(* calculate_init_translation and the derived geometry *)

RECURSIVE SumCoord(_, _)
SumCoord(pts, i) ==
    IF pts = <<>> THEN 0 ELSE Head(pts)[i] + SumCoord(Tail(pts), i)

\* tuple(np.sum(points[:, i]) / len(points) for i in range(3))
Center(pts) == [i \in 1..3 |-> SumCoord(pts, i) \div Len(pts)]

\* np.amin(points, axis=0), np.amax(points, axis=0)
Amin(pts) ==
    [i \in 1..3 |-> CHOOSE v \in {pts[k][i] : k \in 1..Len(pts)} :
                        \A k \in 1..Len(pts) : v <= pts[k][i]]
Amax(pts) ==
    [i \in 1..3 |-> CHOOSE v \in {pts[k][i] : k \in 1..Len(pts)} :
                        \A k \in 1..Len(pts) : v >= pts[k][i]]

\* floor of the square root, by bisection: lo * lo <= x < hi * hi
RECURSIVE SqrtBetween(_, _, _)
SqrtBetween(x, lo, hi) ==
    IF hi - lo <= 1 THEN lo
    ELSE LET mid == (lo + hi) \div 2
         IN IF mid * mid <= x THEN SqrtBetween(x, mid, hi)
                              ELSE SqrtBetween(x, lo, mid)

\* np.linalg.norm(v), rounded down to the fixed-point resolution
Norm(v) == SqrtBetween(v[1] * v[1] + v[2] * v[2] + v[3] * v[3], 0, 46340)

MutUncappedInitTranslation(c, mins, maxs) ==
    LET zoom == Norm([i \in 1..3 |-> maxs[i] - mins[i]])
    IN <<-c[1], -c[2], -(c[3] + zoom)>>

calculate_init_translation(c, mins, maxs) ==
    LET zoom == Min2(Norm([i \in 1..3 |-> maxs[i] - mins[i]]),
                     (config.far_plane * 9) \div 10)
    IN <<-c[1], -c[2], -(c[3] + zoom)>>

----------------------------------------------------------------------------
(* Colours *)

\* utils.color.get_distinct_colors(n): n pairwise distinct colours
get_distinct_colors(n) ==
    [k \in 1..n |-> <<10 * (k % 11), 10 * ((3 * k) % 11), 100>>]

\* utils.color.colorize_points_with_height(points, z_min, z_max): one colour
\* per point, from the point's height on a ramp between z_min and z_max
colorize_points_with_height(pts, zmin, zmax) ==
    NdArray([i \in 1..Len(pts) |->
        LET h == IF zmax = zmin THEN 0
                 ELSE 10 * (((pts[i][3] - zmin) * 10) \div (zmax - zmin))
        IN <<h, 0, 100 - h>>])

MutKeepEmptyColors(c) == IF c.kind = "ndarray" THEN c ELSE None

\* colors if type(colors) == np.ndarray and len(colors) > 0 else None
SelfColors(c) == IF c.kind = "ndarray" /\ Len(c.data) > 0 THEN c ELSE None

\* (np.ones_like(self.points) * colorless_color).astype(np.float32)
FlatColors(pts) == NdArray([i \in 1..Len(pts) |-> config.COLORLESS_COLOR])

\* colors * self.mix_ratio + self.colors * (1 - self.mix_ratio), one point
Blend(lc, c, mix) == [k \in 1..3 |-> (lc[k] * mix + c[k] * (10 - mix)) \div 10]

\* The label_colors property.  np.eye(len(label_definition))[labels] is one
\* one-hot row per label, and its product with label_color_map picks the
\* colour of each label.  The sum of the (n, 3) and the (m, 3) array follows
\* numpy's broadcasting: equal lengths, or one of them 1, else ValueError.
LabelColors(labs, cols, lcm, mix) ==
    IF labs.kind # "None"
    THEN LET n == Len(labs.data)
             m == Len(cols.data)
             mapped == [i \in 1..n |-> lcm[labs.data[i] + 1]]
             len == IF n = 1 THEN m ELSE n
         IN IF n = m \/ n = 1 \/ m = 1
            THEN NdArray([i \in 1..len |->
                     Blend(mapped[IF n = 1 THEN 1 ELSE i],
                           cols.data[IF m = 1 THEN 1 ELSE i], mix)])
            ELSE Raised("ValueError")
    ELSE cols

label_colors == LabelColors(labels, colors, label_color_map, mix_ratio)

----------------------------------------------------------------------------
(* label_counts *)

\* {ind: label for label, ind in self.label_definition.items()}
int2label ==
    [ind \in {label_definition[k] : k \in DOMAIN label_definition} |->
        CHOOSE k \in DOMAIN label_definition : label_definition[k] = ind]

\* np.unique(self.labels, return_counts=True)
UniqueIndexes(labs) == {labs.data[i] : i \in 1..Len(labs.data)}
UniqueCount(labs, ind) ==
    Cardinality({i \in 1..Len(labs.data) : labs.data[i] = ind})

label_counts ==
    IF labels.kind # "None" /\ DOMAIN label_definition # {}
    THEN [kind |-> "dict",
          data |-> [k \in DOMAIN label_definition |->
                      IF \E ind \in UniqueIndexes(labels) : int2label[ind] = k
                      THEN UniqueCount(labels, label_definition[k])
                      ELSE 0]]
    ELSE None

----------------------------------------------------------------------------
(* GL buffer objects *)

EmptyBuf == [size |-> 0, data |-> <<>>, usage |-> "none"]

MutBufSizeInRows(a) ==
    [size |-> Len(a.data), data |-> a.data, usage |-> "GL_DYNAMIC_DRAW"]

\* glBufferData(GL_ARRAY_BUFFER, data.nbytes, data, GL_DYNAMIC_DRAW)
Buf(a) == [size |-> NBytes(a), data |-> a.data, usage |-> "GL_DYNAMIC_DRAW"]

\* create_buffers on a cloud holding pts, cols and the label colours lc:
\* glGenBuffers(3) names three new buffers and the handles are assigned;
\* the list of (data, vbo) pairs is built next, reading label_colors, so a
\* ValueError there leaves the three buffers without a data store.
GenAndUpload(pts, cols, lc) ==
    LET h == Len(gl_buffers)
    IN /\ position_vbo' = h + 1
       /\ color_vbo' = h + 2
       /\ label_vbo' = h + 3
       /\ IF lc.kind = "ndarray"
          THEN /\ gl_buffers' = gl_buffers \o <<Buf(pts), Buf(cols), Buf(lc)>>
               /\ gl_uploads' = gl_uploads + 3
          ELSE /\ gl_buffers' = gl_buffers \o <<EmptyBuf, EmptyBuf, EmptyBuf>>
               /\ UNCHANGED gl_uploads

Op(name, a, e) == [op |-> name, arg |-> a, exc |-> e]

----------------------------------------------------------------------------
(* PointCloud.__init__ *)

Construct ==
    LET pts == args.points
        cols0 == SelfColors(args.colors)
        seg == config.SEGMENTATION
        labs == IF seg THEN args.segmentation_labels ELSE None
        lcm == IF seg
               THEN get_distinct_colors(Cardinality(DOMAIN args.label_definition))
               ELSE <<>>
        mix == IF seg THEN config.label_color_mix_ratio ELSE 0
    IN
    /\ pc = "new"
    /\ points' = NdArray(pts)
    /\ label_definition' = args.label_definition
    /\ labels' = labs
    /\ label_color_map' = lcm
    /\ mix_ratio' = mix
    /\ lastOp' = Op("__init__", <<>>, "")
    /\ UNCHANGED <<args, config, color_pointer, ret>>
    /\ IF Len(pts) = 0
       THEN \* np.amin of an empty array raises ValueError
            /\ colors' = cols0
            /\ pc' = "failed"
            /\ error' = "ValueError"
            /\ UNCHANGED <<center, pcd_mins, pcd_maxs, initVars, transVars,
                           rotVars, vboVars, glVars>>
       ELSE LET c == Center(pts)
                mins == Amin(pts)
                maxs == Amax(pts)
                it == IF args.init_translation # <<>>
                      THEN args.init_translation
                      ELSE calculate_init_translation(c, mins, maxs)
                ir == IF args.init_rotation # <<>>
                      THEN args.init_rotation
                      ELSE <<0, 0, 0>>
                cols == IF cols0.kind = "None"
                        THEN IF config.COLORLESS_COLORIZE
                             THEN colorize_points_with_height(pts, mins[3], maxs[3])
                             ELSE FlatColors(pts)
                        ELSE cols0
                lc == LabelColors(labs, cols, lcm, mix)
            IN /\ center' = c
               /\ pcd_mins' = mins
               /\ pcd_maxs' = maxs
               /\ init_translation' = it
               /\ init_rotation' = ir
               /\ trans_x' = it[1] /\ trans_y' = it[2] /\ trans_z' = it[3]
               /\ rot_x' = ir[1] /\ rot_y' = ir[2] /\ rot_z' = ir[3]
               /\ colors' = cols
               /\ IF args.write_buffer
                  THEN /\ GenAndUpload(NdArray(pts), cols, lc)
                       /\ pc' = IF lc.kind = "ndarray" THEN "ready" ELSE "failed"
                       /\ error' = IF lc.kind = "ndarray" THEN "" ELSE lc.kind
                  ELSE /\ UNCHANGED <<vboVars, glVars>>
                       /\ pc' = "ready"
                       /\ error' = ""

\* an explicit create_buffers() call on a constructed cloud
CreateBuffers ==
    /\ pc = "ready"
    /\ Len(gl_buffers) + 3 <= 3 * MaxCreates
    /\ GenAndUpload(points, colors, label_colors)
    /\ lastOp' = Op("create_buffers", <<>>,
                    IF label_colors.kind = "ndarray" THEN "" ELSE label_colors.kind)
    /\ UNCHANGED <<args, config, pc, error, dataVars, initVars, transVars,
                   rotVars, color_pointer, ret>>

----------------------------------------------------------------------------
(* Getters and setters *)

get_rotations == <<rot_x, rot_y, rot_z>>
get_translation == <<trans_x, trans_y, trans_z>>

MutTruncatedMod(angle) ==
    IF angle >= 0 THEN angle % 360 ELSE -((-angle) % 360)

\* angle % 360: Python's remainder takes the sign of the divisor
Mod360(angle) == angle - 360 * (angle \div 360)

\* what no setter touches
Frame ==
    UNCHANGED <<args, config, pc, error, dataVars, initVars, vboVars, glVars,
                color_pointer, ret>>

set_rot_x(angle) ==
    /\ pc = "ready"
    /\ rot_x' = Mod360(angle)
    /\ UNCHANGED <<rot_y, rot_z, transVars>>
    /\ lastOp' = Op("set_rot_x", <<angle>>, "")
    /\ Frame

set_rot_y(angle) ==
    /\ pc = "ready"
    /\ rot_y' = Mod360(angle)
    /\ UNCHANGED <<rot_x, rot_z, transVars>>
    /\ lastOp' = Op("set_rot_y", <<angle>>, "")
    /\ Frame

set_rot_z(angle) ==
    /\ pc = "ready"
    /\ rot_z' = Mod360(angle)
    /\ UNCHANGED <<rot_x, rot_y, transVars>>
    /\ lastOp' = Op("set_rot_z", <<angle>>, "")
    /\ Frame

set_rotations(x, y, z) ==
    /\ pc = "ready"
    /\ rot_x' = Mod360(x)
    /\ rot_y' = Mod360(y)
    /\ rot_z' = Mod360(z)
    /\ lastOp' = Op("set_rotations", <<x, y, z>>, "")
    /\ UNCHANGED transVars
    /\ Frame

set_trans_x(val) ==
    /\ pc = "ready"
    /\ trans_x' = val
    /\ UNCHANGED <<trans_y, trans_z, rotVars>>
    /\ lastOp' = Op("set_trans_x", <<val>>, "")
    /\ Frame

set_trans_y(val) ==
    /\ pc = "ready"
    /\ trans_y' = val
    /\ UNCHANGED <<trans_x, trans_z, rotVars>>
    /\ lastOp' = Op("set_trans_y", <<val>>, "")
    /\ Frame

set_trans_z(val) ==
    /\ pc = "ready"
    /\ trans_z' = val
    /\ UNCHANGED <<trans_x, trans_y, rotVars>>
    /\ lastOp' = Op("set_trans_z", <<val>>, "")
    /\ Frame

set_translations(x, y, z) ==
    /\ pc = "ready"
    /\ trans_x' = x
    /\ trans_y' = y
    /\ trans_z' = z
    /\ lastOp' = Op("set_translations", <<x, y, z>>, "")
    /\ UNCHANGED rotVars
    /\ Frame

reset_perspective ==
    /\ pc = "ready"
    /\ trans_x' = init_rotation[1]
    /\ trans_y' = init_rotation[2]
    /\ trans_z' = init_rotation[3]
    /\ rot_x' = init_rotation[1]
    /\ rot_y' = init_rotation[2]
    /\ rot_z' = init_rotation[3]
    /\ lastOp' = Op("reset_perspective", <<>>, "")
    /\ Frame

----------------------------------------------------------------------------
(* Rendering *)

\* the color_with_label property reads the configuration at every call;
\* the flag itself is switched from outside the cloud
ToggleColorWithLabel ==
    /\ pc = "ready"
    /\ config' = [config EXCEPT !.color_with_label = ~@]
    /\ lastOp' = Op("config.color_with_label", <<>>, "")
    /\ UNCHANGED <<args, pc, error, dataVars, initVars, transVars, rotVars,
                   vboVars, glVars, color_pointer, ret>>

MutAlwaysColorVbo == color_vbo

\* color_vbo = self.label_vbo if self.color_with_label else self.color_vbo
ActiveColorBuffer == IF config.color_with_label THEN label_vbo ELSE color_vbo

\* draw_pointcloud: without create_buffers the attribute position_vbo does
\* not exist and its read raises AttributeError before any buffer is bound
draw_pointcloud ==
    /\ pc = "ready"
    /\ IF position_vbo = 0
       THEN /\ lastOp' = Op("draw_pointcloud", <<>>, "AttributeError")
            /\ UNCHANGED color_pointer
       ELSE /\ lastOp' = Op("draw_pointcloud", <<>>, "")
            /\ color_pointer' = ActiveColorBuffer
    /\ UNCHANGED <<args, config, pc, error, dataVars, initVars, transVars,
                   rotVars, vboVars, glVars, ret>>

----------------------------------------------------------------------------
(* Property reads *)

ReadLabelCounts ==
    /\ pc = "ready"
    /\ ret' = [op |-> "label_counts", val |-> label_counts]
    /\ UNCHANGED <<args, config, pc, error, dataVars, initVars, transVars,
                   rotVars, vboVars, glVars, color_pointer, lastOp>>

ReadLabelColors ==
    /\ pc = "ready"
    /\ ret' = [op |-> "label_colors", val |-> label_colors]
    /\ UNCHANGED <<args, config, pc, error, dataVars, initVars, transVars,
                   rotVars, vboVars, glVars, color_pointer, lastOp>>

----------------------------------------------------------------------------
(* Inputs *)

LabelDefinition == [unassigned |-> 0, car |-> 1, tree |-> 2]
LabelPool == {0, 2}
PointPool == {<<0, 0, 0>>, <<0, 6000, 8000>>}
ColorPool == {<<100, 50, 0>>, <<0, 20, 40>>}
Angles == {-30, 725, -360}
TransVals == {25}
RenderRotations == {<<-30, 725, -360>>, <<725, 90, -30>>}

\* the state before PointCloud(...) is called with a in the configuration c
Fresh(a, c) ==
    /\ args = a
    /\ config = c
    /\ pc = "new"
    /\ error = ""
    /\ points = None /\ colors = None /\ labels = None
    /\ label_definition = a.label_definition
    /\ label_color_map = <<>>
    /\ mix_ratio = 0
    /\ center = <<>> /\ pcd_mins = <<>> /\ pcd_maxs = <<>>
    /\ init_translation = <<>> /\ init_rotation = <<>>
    /\ trans_x = 0 /\ trans_y = 0 /\ trans_z = 0
    /\ rot_x = 0 /\ rot_y = 0 /\ rot_z = 0
    /\ position_vbo = 0 /\ color_vbo = 0 /\ label_vbo = 0
    /\ gl_buffers = <<>>
    /\ gl_uploads = 0
    /\ color_pointer = 0
    /\ lastOp = Op("", <<>>, "")
    /\ ret = [op |-> "", val |-> None]

TwoPoints == <<<<0, 0, 0>>, <<0, 6000, 8000>>>>
TwoColors == NdArray(<<<<100, 50, 0>>, <<0, 20, 40>>>>)

Config(seg, colorize, fp, mix, cwl) ==
    [SEGMENTATION |-> seg,
     COLORLESS_COLORIZE |-> colorize,
     COLORLESS_COLOR |-> <<50, 50, 50>>,
     far_plane |-> fp,
     label_color_mix_ratio |-> mix,
     color_with_label |-> cwl]

\* The transform state machine: a two-point cloud loaded with and without a
\* perspective, then moved by every setter and reset.
Init ==
    \E it \in {<<>>, <<10, -20, 30>>},
       ir \in {<<>>, <<10, 20, 30>>, <<400, -30, 90>>},
       wb \in BOOLEAN :
        Fresh([points |-> TwoPoints,
               colors |-> TwoColors,
               segmentation_labels |-> NdArray(<<0, 2>>),
               label_definition |-> LabelDefinition,
               init_translation |-> it,
               init_rotation |-> ir,
               write_buffer |-> wb],
              Config(TRUE, FALSE, 100, 3, FALSE))

Next ==
    \/ Construct
    \/ \E a \in Angles : set_rot_x(a)
    \/ \E a \in Angles : set_rot_y(a)
    \/ \E a \in Angles : set_rot_z(a)
    \/ \E x, y, z \in Angles : set_rotations(x, y, z)
    \/ \E v \in TransVals : set_trans_x(v)
    \/ \E v \in TransVals : set_trans_y(v)
    \/ \E v \in TransVals : set_trans_z(v)
    \/ \E x, y, z \in TransVals : set_translations(x, y, z)
    \/ reset_perspective

Spec == Init /\ [][Next]_vars

\* The buffers and the draw call: the same cloud with and without labels
\* (an empty label array makes label_colors raise), drawn under both display
\* modes while it is moved; the single-axis setters write the fields that
\* set_rotations and set_translations write and are left to Spec.
InitRender ==
    \E cols \in {None, TwoColors},
       labs \in {None, NdArray(<<0, 2>>), NdArray(<<2>>), NdArray(<<>>)},
       ir \in {<<>>, <<400, -30, 90>>},
       wb \in BOOLEAN, cwl \in {FALSE} :
        Fresh([points |-> TwoPoints,
               colors |-> cols,
               segmentation_labels |-> labs,
               label_definition |-> LabelDefinition,
               init_translation |-> <<>>,
               init_rotation |-> ir,
               write_buffer |-> wb],
              Config(TRUE, FALSE, 100, 3, cwl))

NextRender ==
    \/ Construct
    \/ CreateBuffers
    \/ ToggleColorWithLabel
    \/ draw_pointcloud
    \/ \E r \in RenderRotations : set_rotations(r[1], r[2], r[3])
    \/ \E x, y, z \in TransVals : set_translations(x, y, z)
    \/ reset_perspective

SpecRender == InitRender /\ [][NextRender]_vars

\* every cloud of up to MaxPoints points, with and without colors and labels
InitLoad ==
    \E pts \in SeqsUpTo(PointPool, MaxPoints),
       cols \in {None} \cup {PyList(<<<<100, 50, 0>>>>)}
                \cup {NdArray(s) : s \in SeqsUpTo(ColorPool, MaxPoints)},
       labs \in {None} \cup {NdArray(s) : s \in SeqsUpTo(LabelPool, MaxPoints)},
       wb \in BOOLEAN, seg \in BOOLEAN, colorize \in BOOLEAN,
       fp \in {100, 20000}, mix \in {0, 3, 10} :
        Fresh([points |-> pts,
               colors |-> cols,
               segmentation_labels |-> labs,
               label_definition |-> LabelDefinition,
               init_translation |-> <<>>,
               init_rotation |-> <<>>,
               write_buffer |-> wb],
              Config(seg, colorize, fp, mix, FALSE))

NextLoad ==
    \/ Construct
    \/ ReadLabelCounts
    \/ ReadLabelColors

SpecLoad == InitLoad /\ [][NextLoad]_vars

----------------------------------------------------------------------------
(* Claims *)

\* C1: after any sequence of translation and rotation setters,
\* reset_perspective() leaves get_translation() equal to init_translation
\* and get_rotations() equal to init_rotation.
C1_ResetRestoresInitialPose ==
    lastOp.op = "reset_perspective" =>
        /\ get_translation = init_translation
        /\ get_rotations = init_rotation

\* C2: in every state of a constructed PointCloud each of rot_x, rot_y and
\* rot_z lies in [0, 360).
C2_RotationsNormalized ==
    pc = "ready" => \A r \in {rot_x, rot_y, rot_z} : 0 <= r /\ r < 360

\* a non-empty colors array, or a labels array in segmentation mode, whose
\* length differs from the number of points
LengthMismatch ==
    \/ /\ args.colors.kind = "ndarray"
       /\ Len(args.colors.data) > 0
       /\ Len(args.colors.data) # Len(args.points)
    \/ /\ config.SEGMENTATION
       /\ args.segmentation_labels.kind = "ndarray"
       /\ Len(args.segmentation_labels.data) # Len(args.points)

\* C3: constructing a PointCloud whose colors (or labels) array differs in
\* length from the points array fails, and no GPU buffer is generated.
C3_MismatchFailsBeforeBuffers ==
    pc # "new" /\ LengthMismatch => pc = "failed" /\ Len(gl_buffers) = 0

Normalised(a, r) ==
    /\ 0 <= r /\ r < 360
    /\ \E k \in -3..3 : a - r = 360 * k
    /\ a = -30 => r = 330
    /\ a = 725 => r = 5

\* C4: every rotation setter stores the given angle reduced modulo 360 with
\* floor semantics: the stored r has 0 <= r < 360 and a - r is a multiple of
\* 360; -30 is stored as 330 and 725 as 5.
C4_SettersReduceModulo360 ==
    /\ lastOp.op = "set_rot_x" => Normalised(lastOp.arg[1], rot_x)
    /\ lastOp.op = "set_rot_y" => Normalised(lastOp.arg[1], rot_y)
    /\ lastOp.op = "set_rot_z" => Normalised(lastOp.arg[1], rot_z)
    /\ lastOp.op = "set_rotations" =>
           /\ Normalised(lastOp.arg[1], rot_x)
           /\ Normalised(lastOp.arg[2], rot_y)
           /\ Normalised(lastOp.arg[3], rot_z)

C4_Witness ==
    /\ lastOp = Op("set_rot_x", <<-30>>, "")
    /\ rot_x = 330
    /\ init_rotation = <<400, -30, 90>>

\* C5 as stated: the magnitude of the z-component of the computed initial
\* translation never exceeds far_plane * 0.9.
C5_ZMagnitudeCapped ==
    pc = "ready" /\ args.init_translation = <<>> =>
        Abs(init_translation[3]) * 10 <= config.far_plane * 9

\* C5 as amended: the zoom distance that calculate_init_translation puts
\* behind the cloud center, -z - center_z, is never negative and never
\* exceeds far_plane * 0.9; a diagonal of 1000 under far_plane 10 gives 9.
C5_ZoomCapped ==
    pc = "ready" /\ args.init_translation = <<>> =>
        LET zoom == -init_translation[3] - center[3]
        IN /\ 0 <= zoom
           /\ zoom * 10 <= config.far_plane * 9
           /\ init_translation[1] = -center[1]
           /\ init_translation[2] = -center[2]
           /\ (config.far_plane = 100 /\ pcd_mins = <<0, 0, 0>>
                 /\ pcd_maxs = <<0, 6000, 8000>>) => zoom = 90

C5_Witness ==
    /\ pc = "ready"
    /\ args.init_translation = <<>>
    /\ config.far_plane = 100
    /\ pcd_mins = <<0, 0, 0>> /\ pcd_maxs = <<0, 6000, 8000>>
    /\ center[3] = 4000
    /\ init_translation[3] = -4090

RECURSIVE SumOver(_, _)
SumOver(f, S) ==
    IF S = {} THEN 0
    ELSE LET k == CHOOSE x \in S : TRUE IN f[k] + SumOver(f, S \ {k})

\* C6: with labels present label_counts holds one entry per class name, the
\* number of points carrying that class, and the counts add up to the number
\* of points; without labels it is None.
C6_LabelCountsSumToPoints ==
    ret.op = "label_counts" =>
        IF labels.kind # "None"
        THEN /\ ret.val.kind = "dict"
             /\ DOMAIN ret.val.data = DOMAIN label_definition
             /\ \A k \in DOMAIN label_definition :
                    ret.val.data[k] =
                        Cardinality({i \in 1..Len(labels.data) :
                                        labels.data[i] = label_definition[k]})
             /\ SumOver(ret.val.data, DOMAIN label_definition) = Len(points.data)
        ELSE ret.val = None

Colorless(c) == c.kind # "ndarray" \/ Len(c.data) = 0

\* C7: a cloud of N points constructed without colors (None, not an array,
\* or an empty array) while COLORLESS_COLORIZE is off holds exactly N
\* colors, each equal to COLORLESS_COLOR.
C7_FlatColorFallback ==
    pc = "ready" /\ Colorless(args.colors) /\ ~config.COLORLESS_COLORIZE =>
        /\ colors.kind = "ndarray"
        /\ Len(colors.data) = Len(points.data)
        /\ \A i \in 1..Len(points.data) : colors.data[i] = config.COLORLESS_COLOR

C7_Witness ==
    /\ pc = "ready"
    /\ args.colors = NdArray(<<>>)
    /\ ~config.COLORLESS_COLORIZE
    /\ Len(points.data) = 2
    /\ colors = NdArray(<<<<50, 50, 50>>, <<50, 50, 50>>>>)

\* C8: for every point i, label_colors[i] = mix_ratio *
\* label_color_map[labels[i]] + (1 - mix_ratio) * colors[i]; mix_ratio 0
\* gives the base colors, 1 the label colors; without labels label_colors
\* is the base colors.
C8_LabelColorsBlend ==
    ret.op = "label_colors" =>
        IF labels.kind # "None"
        THEN /\ ret.val.kind = "ndarray"
             /\ Len(ret.val.data) = Len(points.data)
             /\ \A i \in 1..Len(points.data) :
                    /\ i \in DOMAIN labels.data
                    /\ i \in DOMAIN colors.data
                    /\ LET lc == label_color_map[labels.data[i] + 1]
                           c == colors.data[i]
                       IN /\ \A k \in 1..3 :
                                10 * ret.val.data[i][k] =
                                    mix_ratio * lc[k] + (10 - mix_ratio) * c[k]
                          /\ mix_ratio = 0 => ret.val.data[i] = c
                          /\ mix_ratio = 10 => ret.val.data[i] = lc
        ELSE ret.val = colors

\* C9: each draw binds the label buffer as the color stream exactly when
\* color_with_label is true at that draw and the base color buffer
\* otherwise (a draw of a cloud without buffers raises and binds nothing);
\* neither a draw nor a switch of the flag uploads data or changes a handle
\* or the content of a buffer.
C9_DrawSelectsBuffer ==
    [][/\ lastOp'.op = "draw_pointcloud" /\ lastOp'.exc = "" =>
            /\ label_vbo # color_vbo
            /\ config.color_with_label => color_pointer' = label_vbo
            /\ ~config.color_with_label => color_pointer' = color_vbo
       /\ lastOp'.op = "draw_pointcloud" /\ lastOp'.exc # "" =>
            position_vbo = 0 /\ UNCHANGED color_pointer
       /\ lastOp'.op \in {"draw_pointcloud", "config.color_with_label"} =>
            UNCHANGED <<vboVars, glVars>>
      ]_vars

C9_Witness ==
    /\ lastOp = Op("draw_pointcloud", <<>>, "")
    /\ config.color_with_label
    /\ color_pointer = label_vbo
    /\ label_vbo = 6
    /\ gl_uploads = 6

\* create_buffers has run to its end: the three uploads were made
BuffersCreated == label_vbo # 0 /\ gl_buffers[label_vbo].usage # "none"

SizesMatch ==
    /\ gl_buffers[position_vbo].size = NBytes(points)
    /\ gl_buffers[color_vbo].size = NBytes(colors)
    /\ gl_buffers[label_vbo].size = NBytes(label_colors)

\* C10: once create_buffers has run, after every setter, reset and draw the
\* position, color and label buffers have the byte size of the current
\* points, colors and label_colors; a load creates the buffers once, and
\* only an explicit create_buffers call creates them again.
C10_BuffersMatchArrays ==
    [][/\ BuffersCreated' => SizesMatch'
       /\ (vboVars' # vboVars \/ glVars' # glVars) =>
            lastOp'.op \in {"__init__", "create_buffers"}
       /\ lastOp'.op = "__init__" =>
            Len(gl_buffers') = IF args.write_buffer THEN 3 ELSE 0
      ]_vars

C10_Witness ==
    /\ lastOp = Op("draw_pointcloud", <<>>, "")
    /\ BuffersCreated
    /\ position_vbo = 4
    /\ gl_buffers[position_vbo].size = 24
    /\ rot_x = 330
    /\ trans_x = 25
    /\ init_rotation = <<400, -30, 90>>

====
